---------------------------- MODULE Spec2Model ----------------------------
(***************************************************************************)
(* Projectile motion: the frame loop of main.py (physics step, redraw,     *)
(* event drain) and its pure functions next_position, get_power and        *)
(* get_angle.                                                              *)
(*                                                                         *)
(* Number representation.  The program computes with Python floats.  The   *)
(* model computes with exact fixed-point numbers: a length, time, speed or *)
(* power v is the integer v * Scale.  Scale = 4000 is the grid on which    *)
(* 4.9 * (k * 0.05)^2 is exact for every tick count k.  An angle is a pair *)
(* <<q, s>> standing for q * (pi/2) + s * atan(3/4): on that lattice cos   *)
(* and sin are exact rationals (0, 1, 3/5, 4/5 and their negatives).  The  *)
(* quotient handed to atan is a reduced fraction <<num, den>>.  Drags are  *)
(* therefore drawn from the directions on which sqrt and atan are exact:   *)
(* the axes and the 3-4-5 directions, in whole pixels.                     *)
(***************************************************************************)
EXTENDS Integers, Sequences, FiniteSets

VARIABLES
  pc,        \* position in the loop: "physics", "draw", "poll", "handle", "exited"
             \* (or "fn", "fn_next_position", "fn_get_power", "fn_get_angle")
  ball,      \* the Ball instance: [x, y, radius]
  shooting,  \* main.py:136
  start_x,   \* main.py:137
  start_y,   \* main.py:138
  time,      \* main.py:139
  power,     \* main.py:140
  angle,     \* main.py:141
  mouse,     \* the pointer position polled at the last launch (main.py:168)
  frame,     \* the frame last presented by draw_window; <<>> before the first
  queue,     \* events of the current pygame.event.get() batch not yet handled
  done,      \* events of the current batch already handled
  step,      \* history: branch the physics step of this iteration took
  drawn,     \* history: frames presented in this iteration
  ticks,     \* history: position updates since the last launch
  pressed,   \* history: ball position at the last launch
  launches   \* history: number of launches so far

vars == <<pc, ball, shooting, start_x, start_y, time, power, angle, mouse,
          frame, queue, done, step, drawn, ticks, pressed, launches>>

---------------------------------------------------------------------------
(* Bounds of the model *)

MaxBatch == 2
MaxLaunches == 2

\* ticks followed along one trajectory; the strongest launch modelled (power
\* 25, straight up) starts to descend at tick 52
MaxTrajTicks == 60

---------------------------------------------------------------------------
(* Fixed-point numbers *)

Scale == 10 * 20 * 20

Px(n) == n * Scale

\* a * b on the grid; split so that no intermediate product leaves 32 bits
Mul(a, b) == (a \div Scale) * b + ((a % Scale) * b) \div Scale

\* m * m <= n, compared exactly
SqLeq(m, n) ==
  \/ Mul(m, m) < n
  \/ Mul(m, m) = n /\ ((m % Scale) * (m % Scale)) % Scale = 0

SqrtLimit == Px(512)

RECURSIVE SqrtSearch(_, _, _)
SqrtSearch(n, lo, hi) ==
  IF hi - lo <= 1 THEN lo
  ELSE LET mid == (lo + hi) \div 2
       IN IF SqLeq(mid, n) THEN SqrtSearch(n, mid, hi)
                           ELSE SqrtSearch(n, lo, mid)

\* math.sqrt: the largest grid number whose square is at most n
sqrt(n) == SqrtSearch(n, 0, SqrtLimit)

Abs(n) == IF n < 0 THEN -n ELSE n

RECURSIVE Gcd(_, _)
Gcd(a, b) == IF b = 0 THEN a ELSE Gcd(b, a % b)

\* the float quotient a / b (b # 0) as a reduced fraction with positive denominator
Quot(a, b) ==
  LET g == Gcd(Abs(a), Abs(b))
      sgn == IF b < 0 THEN -1 ELSE 1
  IN <<(sgn * a) \div g, Abs(b) \div g>>

---------------------------------------------------------------------------
(* Angles: <<q, s>> is q * (pi/2) + s * atan(3/4) *)

pi == <<2, 0>>

AngNeg(a) == <<-a[1], -a[2]>>
AngAdd(a, b) == <<a[1] + b[1], a[2] + b[2]>>
AngSub(a, b) == AngAdd(a, AngNeg(b))
AngHalf(a) == <<a[1] \div 2, a[2] \div 2>>

\* the angle in microradians, used only to order angles
Micro(a) == a[1] * 1570796 + a[2] * 643501

AngAbs(a) == IF Micro(a) < 0 THEN AngNeg(a) ELSE a

\* math.atan on the quotients the drag directions produce
atan(r) ==
  CASE r = <<0, 1>>  -> <<0, 0>>
    [] r = <<3, 4>>  -> <<0, 1>>
    [] r = <<-3, 4>> -> <<0, -1>>
    [] r = <<4, 3>>  -> <<1, -1>>
    [] r = <<-4, 3>> -> <<-1, 1>>

\* cos and sin of s * atan(3/4), s in {-1, 0, 1}
BaseCos(s) == IF s = 0 THEN Scale ELSE (4 * Scale) \div 5
BaseSin(s) == s * ((3 * Scale) \div 5)

cos(a) ==
  LET q == a[1] % 4
  IN CASE q = 0 -> BaseCos(a[2])
       [] q = 1 -> -BaseSin(a[2])
       [] q = 2 -> -BaseCos(a[2])
       [] q = 3 -> BaseSin(a[2])

sin(a) ==
  LET q == a[1] % 4
  IN CASE q = 0 -> BaseSin(a[2])
       [] q = 1 -> BaseCos(a[2])
       [] q = 2 -> -BaseSin(a[2])
       [] q = 3 -> -BaseCos(a[2])

---------------------------------------------------------------------------
(* Program constants, main.py:11-21 *)

WIDTH == 1200
HEIGHT == 500
RADIUS == 10

\* START_Y without its margin of one pixel
START_Y_NoMargin == Px(HEIGHT - RADIUS)

START_X == Px(WIDTH) \div 2
START_Y == Px(HEIGHT - RADIUS - 1)

\* the literals 0.05 (main.py:150) and 4.9 (main.py:63)
TimeStep == (5 * Scale) \div 100
Gravity == (49 * Scale) \div 10

---------------------------------------------------------------------------
(* Pure functions *)

\* next_position with the displacement not scaled by the elapsed time
next_position_unscaled(sx, sy, p, a, t) ==
  LET velocity_x == Mul(cos(a), p)
      velocity_y == Mul(sin(a), p)
      distance_y == velocity_y - Mul(Gravity, Mul(t, t))
  IN <<sx + velocity_x, sy - distance_y>>

\* next_position without the gravity term
next_position_no_gravity(sx, sy, p, a, t) ==
  LET velocity_x == Mul(cos(a), p)
      velocity_y == Mul(sin(a), p)
      distance_x == Mul(velocity_x, t)
      distance_y == Mul(velocity_y, t)
  IN <<sx + distance_x, sy - distance_y>>

\* Ball.next_position, main.py:47-68
next_position(sx, sy, p, a, t) ==
  LET velocity_x == Mul(cos(a), p)
      velocity_y == Mul(sin(a), p)
      distance_x == Mul(velocity_x, t)
      distance_y == Mul(velocity_y, t) - Mul(Gravity, Mul(t, t))
      next_x == sx + distance_x
      next_y == sy - distance_y
  IN <<next_x, next_y>>

\* get_power reading the y coordinates twice
get_power_y_only(line) ==
  sqrt(Mul(line[2][2] - line[1][2], line[2][2] - line[1][2])
       + Mul(line[2][2] - line[1][2], line[2][2] - line[1][2])) \div 8

\* get_power, main.py:92-99; line = <<<<x0, y0>>, <<x1, y1>>>>
get_power(line) ==
  sqrt(Mul(line[2][2] - line[1][2], line[2][2] - line[1][2])
       + Mul(line[2][1] - line[1][1], line[2][1] - line[1][1])) \div 8

\* get_angle without the abs of its first quadrant branch
get_angle_no_abs(line) ==
  LET x == line[1][1]
      y == line[1][2]
      mouse_x == line[2][1]
      mouse_y == line[2][2]
      raw == IF mouse_x # x THEN atan(Quot(mouse_y - y, mouse_x - x))
                            ELSE AngHalf(pi)
  IN CASE x < mouse_x /\ y > mouse_y -> raw
       [] x > mouse_x /\ y > mouse_y -> AngSub(pi, raw)
       [] x > mouse_x /\ y < mouse_y -> AngAdd(pi, AngAbs(raw))
       [] x < mouse_x /\ y < mouse_y -> AngSub(AngAdd(pi, pi), raw)
       [] OTHER -> raw

\* get_angle with "angle = 0" in the else branch of its first test
get_angle_else_zero(line) ==
  LET x == line[1][1]
      y == line[1][2]
      mouse_x == line[2][1]
      mouse_y == line[2][2]
      raw == IF mouse_x # x THEN atan(Quot(mouse_y - y, mouse_x - x))
                            ELSE <<0, 0>>
  IN CASE x < mouse_x /\ y > mouse_y -> AngAbs(raw)
       [] x > mouse_x /\ y > mouse_y -> AngSub(pi, raw)
       [] x > mouse_x /\ y < mouse_y -> AngAdd(pi, AngAbs(raw))
       [] x < mouse_x /\ y < mouse_y -> AngSub(AngAdd(pi, pi), raw)
       [] OTHER -> raw

\* get_angle, main.py:101-128
get_angle(line) ==
  LET x == line[1][1]
      y == line[1][2]
      mouse_x == line[2][1]
      mouse_y == line[2][2]
      raw == IF mouse_x # x THEN atan(Quot(mouse_y - y, mouse_x - x))
                            ELSE AngHalf(pi)
  IN CASE x < mouse_x /\ y > mouse_y -> AngAbs(raw)
       [] x > mouse_x /\ y > mouse_y -> AngSub(pi, raw)
       [] x > mouse_x /\ y < mouse_y -> AngAdd(pi, AngAbs(raw))
       [] x < mouse_x /\ y < mouse_y -> AngSub(AngAdd(pi, pi), raw)
       [] OTHER -> raw

\* draw_line without its test of the shooting flag
draw_line_always(b, s) == <<<<b.x, b.y>>, "mouse">>

\* draw_line, main.py:70-78: the segment drawn, <<>> when none is.  Its far end
\* is the pointer position polled while drawing; no launch reads that value,
\* and the frame records it as "mouse".
draw_line(b, s) == IF ~s THEN <<<<b.x, b.y>>, "mouse">> ELSE <<>>

\* draw_window, main.py:80-90: the frame presented
draw_window(b, s) == [ball |-> <<b.x, b.y>>, line |-> draw_line(b, s)]

---------------------------------------------------------------------------
(* Inputs *)

\* pointer positions (whole pixels inside the window)
Pointers ==
  { <<Px(600), Px(489)>>,    \* on the launch pad
    <<Px(680), Px(429)>>,    \* right and above the pad, 4:3
    <<Px(600), Px(449)>>,    \* straight above the pad
    <<Px(440), Px(489)>>,    \* on the ground line, left
    <<Px(604), Px(492)>>,    \* right and below the pad, 4:3
    <<Px(597), Px(485)>>,    \* left and above the pad, 3:4
    <<Px(596), Px(492)>>,    \* left and below the pad, 4:3
    <<Px(600), Px(495)>> }   \* straight below the pad

WholePixel(v) == v % Scale = 0

\* the drags whose length and direction the number representation holds exactly
Exact(line) ==
  LET dx == line[2][1] - line[1][1]
      dy == line[2][2] - line[1][2]
  IN /\ WholePixel(dx) /\ WholePixel(dy)
     /\ \/ dx = 0
        \/ dy = 0
        \/ 3 * Abs(dx) = 4 * Abs(dy)
        \/ 4 * Abs(dx) = 3 * Abs(dy)

Events == {"QUIT", "MOUSEBUTTONDOWN", "MOUSEMOTION"}

RECURSIVE SeqsUpTo(_, _)
SeqsUpTo(S, n) ==
  IF n = 0 THEN {<<>>}
  ELSE LET shorter == SeqsUpTo(S, n - 1)
       IN shorter \cup {Append(q, e) : q \in shorter, e \in S}

BallPos == <<ball.x, ball.y>>

\* a press is delivered while idle only when a launch is within the model's inputs
CanLaunch ==
  /\ launches < MaxLaunches
  /\ \E m \in Pointers : Exact(<<BallPos, m>>)

Batches ==
  { b \in SeqsUpTo(Events, MaxBatch) :
      (\E i \in 1..Len(b) : b[i] = "MOUSEBUTTONDOWN") => (shooting \/ CanLaunch) }

---------------------------------------------------------------------------
(* The program, main.py:130-173 *)

Init ==
  /\ pc = "physics"
  /\ ball = [x |-> START_X, y |-> START_Y, radius |-> Px(RADIUS)]
  /\ shooting = FALSE
  /\ start_x = 0
  /\ start_y = 0
  /\ time = 0
  /\ power = 0
  /\ angle = <<0, 0>>
  /\ mouse = <<Px(600), Px(489)>>
  /\ frame = <<>>
  /\ queue = <<>>
  /\ done = <<>>
  /\ step = "idle"
  /\ drawn = 0
  /\ ticks = 0
  /\ pressed = <<START_X, START_Y>>
  /\ launches = 0

\* "time += 0.05" adding twice the step
AdvanceDouble(t) == t + 2 * TimeStep

\* main.py:150: time += 0.05
Advance(t) == t + TimeStep

\* the landing branch also moving the ball back to START_X
LandAtStart(b) == [b EXCEPT !.x = START_X, !.y = START_Y]

\* the landing branch leaving the ball where the flight ended
LandNoSnap(b) == b

\* main.py:156: ball.y = START_Y
Land(b) == [b EXCEPT !.y = START_Y]

\* the guard comparing with the resting height START_Y
KeepsFlyingToStart(b) == b.y <= START_Y

\* the guard comparing with HEIGHT, the radius forgotten
KeepsFlyingNoRadius(b) == b.y <= Px(HEIGHT)

\* main.py:149: ball.y <= HEIGHT - ball.radius
KeepsFlying(b) == b.y <= Px(HEIGHT) - b.radius

\* the else branch left empty
StopBallMissing ==
  /\ step' = "land"
  /\ UNCHANGED <<shooting, ball, time, ticks>>

\* main.py:154-156: the else branch of the physics step
StopBall ==
  /\ shooting' = FALSE
  /\ ball' = Land(ball)
  /\ step' = "land"
  /\ UNCHANGED <<time, ticks>>

\* main.py:145-156: the physics step
Tick ==
  /\ pc = "physics"
  /\ pc' = "draw"
  /\ drawn' = 0
  /\ IF shooting
       THEN IF KeepsFlying(ball)
              THEN LET position == next_position(start_x, start_y, power, angle,
                                                 Advance(time))
                   IN /\ time' = Advance(time)
                      /\ ball' = [ball EXCEPT !.x = position[1], !.y = position[2]]
                      /\ shooting' = shooting
                      /\ step' = "update"
                      /\ ticks' = ticks + 1
              ELSE StopBall
       ELSE /\ step' = "idle"
            /\ UNCHANGED <<ball, shooting, time, ticks>>
  /\ UNCHANGED <<start_x, start_y, power, angle, mouse, frame, queue, done,
                 pressed, launches>>

\* main.py:158: draw_window
Draw ==
  /\ pc = "draw"
  /\ pc' = "poll"
  /\ frame' = draw_window(ball, shooting)
  /\ drawn' = drawn + 1
  /\ UNCHANGED <<ball, shooting, start_x, start_y, time, power, angle, mouse,
                 queue, done, step, ticks, pressed, launches>>

\* main.py:161: pygame.event.get() returns the pending events
Poll ==
  /\ pc = "poll"
  /\ \E b \in Batches :
       /\ queue' = b
       /\ pc' = IF b = <<>> THEN "physics" ELSE "handle"
  /\ done' = <<>>
  /\ UNCHANGED <<ball, shooting, start_x, start_y, time, power, angle, mouse,
                 frame, step, drawn, ticks, pressed, launches>>

\* the for loop goes on to the next event, or the while loop to the next iteration
AfterEvent == IF Tail(queue) = <<>> THEN "physics" ELSE "handle"

\* the QUIT branch without its exit
HandleQuitContinue ==
  /\ pc = "handle"
  /\ Head(queue) = "QUIT"
  /\ pc' = AfterEvent
  /\ queue' = Tail(queue)
  /\ done' = Append(done, Head(queue))
  /\ UNCHANGED <<ball, shooting, start_x, start_y, time, power, angle, mouse,
                 frame, step, drawn, ticks, pressed, launches>>

\* main.py:162-164
HandleQuit ==
  /\ pc = "handle"
  /\ Head(queue) = "QUIT"
  /\ pc' = "exited"
  /\ queue' = Tail(queue)
  /\ done' = Append(done, Head(queue))
  /\ UNCHANGED <<ball, shooting, start_x, start_y, time, power, angle, mouse,
                 frame, step, drawn, ticks, pressed, launches>>

\* the launch without "time = 0"
LaunchKeepTime(m) ==
  LET line == <<BallPos, m>>
  IN /\ Exact(line)
     /\ mouse' = m
     /\ shooting' = TRUE
     /\ start_x' = ball.x
     /\ start_y' = ball.y
     /\ time' = time
     /\ power' = get_power(line)
     /\ angle' = get_angle(line)
     /\ ticks' = 0
     /\ pressed' = BallPos
     /\ launches' = launches + 1

\* the launch starting its clock one step ahead
LaunchStartsClock(m) ==
  LET line == <<BallPos, m>>
  IN /\ Exact(line)
     /\ mouse' = m
     /\ shooting' = TRUE
     /\ start_x' = ball.x
     /\ start_y' = ball.y
     /\ time' = TimeStep
     /\ power' = get_power(line)
     /\ angle' = get_angle(line)
     /\ ticks' = 0
     /\ pressed' = BallPos
     /\ launches' = launches + 1

\* main.py:167-173: the launch, with the pointer polled at m
Launch(m) ==
  LET line == <<BallPos, m>>
  IN /\ Exact(line)
     /\ mouse' = m
     /\ shooting' = TRUE
     /\ start_x' = ball.x
     /\ start_y' = ball.y
     /\ time' = 0
     /\ power' = get_power(line)
     /\ angle' = get_angle(line)
     /\ ticks' = 0
     /\ pressed' = BallPos
     /\ launches' = launches + 1

\* the press handler without its test of the shooting flag
HandleMouseDownAlways ==
  /\ pc = "handle"
  /\ Head(queue) = "MOUSEBUTTONDOWN"
  /\ pc' = AfterEvent
  /\ queue' = Tail(queue)
  /\ done' = Append(done, Head(queue))
  /\ \E m \in Pointers : Launch(m)
  /\ UNCHANGED <<ball, frame, step, drawn>>

\* main.py:165-173
HandleMouseDown ==
  /\ pc = "handle"
  /\ Head(queue) = "MOUSEBUTTONDOWN"
  /\ pc' = AfterEvent
  /\ queue' = Tail(queue)
  /\ done' = Append(done, Head(queue))
  /\ IF ~shooting
       THEN \E m \in Pointers : Launch(m)
       ELSE UNCHANGED <<shooting, start_x, start_y, time, power, angle, mouse,
                        ticks, pressed, launches>>
  /\ UNCHANGED <<ball, frame, step, drawn>>

\* main.py:161-165: an event of any other type
HandleOther ==
  /\ pc = "handle"
  /\ Head(queue) \notin {"QUIT", "MOUSEBUTTONDOWN"}
  /\ pc' = AfterEvent
  /\ queue' = Tail(queue)
  /\ done' = Append(done, Head(queue))
  /\ UNCHANGED <<ball, shooting, start_x, start_y, time, power, angle, mouse,
                 frame, step, drawn, ticks, pressed, launches>>

Next ==
  \/ Tick
  \/ Draw
  \/ Poll
  \/ HandleQuit
  \/ HandleMouseDown
  \/ HandleOther

Spec == Init /\ [][Next]_vars

\* the loop never pauses: every step that can run does run
FairSpec == Spec /\ WF_vars(Next)

---------------------------------------------------------------------------
(* The pure functions on their own: arguments drawn from bounded sets *)

FnStarts == { <<Px(600), Px(489)>>, <<Px(663), Px(489)>>, <<Px(100), Px(250)>> }

\* drags in whole pixels: none, the four axes, the four quadrants
FnDrags ==
  { <<0, 0>>, <<10, 0>>, <<-10, 0>>, <<0, -10>>, <<0, 10>>,
    <<4, -3>>, <<-4, -3>>, <<-4, 3>>, <<4, 3>>,
    <<3, -4>>, <<-3, -4>>, <<-3, 4>>, <<3, 4>>,
    <<160, -120>>, <<1, 0>> }

FnPowers == { 0, Px(5) \div 8, Px(10), Px(25) }

FnAngles ==
  { <<0, 0>>, <<0, 1>>, <<1, 0>>, <<1, 1>>, <<2, 0>>, <<2, 1>>, <<3, 0>>,
    <<4, -1>> }

FnTimes == { 0, TimeStep, Px(1) }

InitFn ==
  /\ pc = "fn"
  /\ \E b \in FnStarts, d \in FnDrags :
       /\ ball = [x |-> b[1], y |-> b[2], radius |-> Px(RADIUS)]
       /\ mouse = <<b[1] + Px(d[1]), b[2] + Px(d[2])>>
  /\ \E b \in FnStarts : start_x = b[1] /\ start_y = b[2]
  /\ power \in FnPowers
  /\ angle \in FnAngles
  /\ time = 0
  /\ shooting = FALSE
  /\ frame = <<>>
  /\ queue = <<>>
  /\ done = <<>>
  /\ step = "idle"
  /\ drawn = 0
  /\ ticks = 0
  /\ pressed = <<START_X, START_Y>>
  /\ launches = 0

\* a call of Ball.next_position; the result is stored in ball
FnNextPosition ==
  /\ pc = "fn"
  /\ pc' = "fn_next_position"
  /\ \E t \in FnTimes :
       LET position == next_position(start_x, start_y, power, angle, t)
       IN /\ time' = t
          /\ ball' = [ball EXCEPT !.x = position[1], !.y = position[2]]
  /\ UNCHANGED <<shooting, start_x, start_y, power, angle, mouse, frame, queue,
                 done, step, drawn, ticks, pressed, launches>>

\* a call of get_power on the line from the ball to the pointer
FnGetPower ==
  /\ pc = "fn"
  /\ pc' = "fn_get_power"
  /\ power' = get_power(<<BallPos, mouse>>)
  /\ UNCHANGED <<ball, shooting, start_x, start_y, time, angle, mouse, frame,
                 queue, done, step, drawn, ticks, pressed, launches>>

\* a call of get_angle on the line from the ball to the pointer
FnGetAngle ==
  /\ pc = "fn"
  /\ pc' = "fn_get_angle"
  /\ angle' = get_angle(<<BallPos, mouse>>)
  /\ UNCHANGED <<ball, shooting, start_x, start_y, time, power, mouse, frame,
                 queue, done, step, drawn, ticks, pressed, launches>>

NextFn ==
  \/ FnNextPosition
  \/ FnGetPower
  \/ FnGetAngle

FnSpec == InitFn /\ [][NextFn]_vars

---------------------------------------------------------------------------
(* One launch followed tick by tick: the points next_position returns along
   the times 0.05, 0.10, 0.15, ... of main.py:150-153, with no landing *)

InitTraj ==
  /\ pc = "traj"
  /\ \E b \in FnStarts :
       /\ start_x = b[1]
       /\ start_y = b[2]
       /\ ball = [x |-> b[1], y |-> b[2], radius |-> Px(RADIUS)]
       /\ pressed = b
  /\ power \in FnPowers
  /\ angle \in FnAngles
  /\ time = 0
  /\ shooting = TRUE
  /\ mouse = <<0, 0>>
  /\ frame = <<>>
  /\ queue = <<>>
  /\ done = <<>>
  /\ step = "idle"
  /\ drawn = 0
  /\ ticks = 0
  /\ launches = 1

\* main.py:150-153: the time advances and the ball moves to the next point
TrajStep ==
  /\ pc = "traj"
  /\ ticks < MaxTrajTicks
  /\ LET position == next_position(start_x, start_y, power, angle, Advance(time))
     IN /\ time' = Advance(time)
        /\ ball' = [ball EXCEPT !.x = position[1], !.y = position[2]]
  /\ ticks' = ticks + 1
  /\ step' = "update"
  /\ UNCHANGED <<pc, shooting, start_x, start_y, power, angle, mouse, frame,
                 queue, done, drawn, pressed, launches>>

TrajSpec == InitTraj /\ [][TrajStep]_vars

\* the sequence of points is followed to its bound
TrajFair == TrajSpec /\ WF_vars(TrajStep)

---------------------------------------------------------------------------
(* Claims *)

Ground == Px(HEIGHT) - ball.radius

TwoPi == AngAdd(pi, pi)

AtPad == ~shooting /\ BallPos = <<START_X, START_Y>>

OnGround == ~shooting /\ ball.y = START_Y

Airborne ==
  /\ shooting
  /\ <<start_x, start_y>> = pressed
  /\ power >= 0
  /\ Micro(angle) >= 0 /\ Micro(angle) < Micro(TwoPi)
  /\ time >= 0

C3_Launch ==
  [][(pc = "handle" /\ Head(queue) = "MOUSEBUTTONDOWN" /\ ~shooting) =>
       /\ shooting'
       /\ time' = 0
       /\ start_x' = ball.x /\ start_y' = ball.y
       /\ power' = get_power(<<BallPos, mouse'>>)
       /\ angle' = get_angle(<<BallPos, mouse'>>)
       /\ ball' = ball]_vars

C3_Witness ==
  /\ launches = 2 /\ shooting /\ ticks = 0 /\ time = 0
  /\ start_x = ball.x /\ start_x # START_X /\ power > 0

\* C4: a press handled while shooting = true changes nothing of the flight:
\* of the presses of one batch only the first that finds shooting = false
\* launches.
C4_PressIgnored ==
  [][(pc = "handle" /\ Head(queue) = "MOUSEBUTTONDOWN" /\ shooting) =>
       UNCHANGED <<shooting, start_x, start_y, power, angle, time, ball,
                   launches>>]_vars

C4_Witness ==
  /\ done = <<"MOUSEBUTTONDOWN", "MOUSEBUTTONDOWN">>
  /\ shooting /\ ticks = 0 /\ launches = 1

\* C5: while airborne the elapsed time is the number of position updates
\* since the launch times 0.05, the ball is at next_position of the launch
\* parameters for that time, and the launch parameters do not change.
C5_AirborneTick ==
  /\ [](shooting =>
          /\ time = ticks * TimeStep
          /\ <<start_x, start_y>> = pressed
          /\ BallPos = IF ticks = 0 THEN pressed
                       ELSE next_position(start_x, start_y, power, angle, time))
  /\ [][(shooting /\ shooting') =>
          UNCHANGED <<start_x, start_y, power, angle>>]_vars
  /\ [][(pc = "physics" /\ shooting /\ shooting') =>
          (time' = time + TimeStep /\ ticks' = ticks + 1)]_vars

C5_Witness == shooting /\ ticks = 5 /\ ball.y < start_y /\ ball.x > start_x

\* C6: if the loop keeps running, every flight ends (or the program quits).
C6_FlightEnds == shooting ~> (~shooting \/ pc = "exited")

C6_Witness == step = "land" /\ ~shooting /\ power = 0 /\ launches = 1

\* C7: each iteration presents exactly one frame, which shows the ball where
\* it is and holds the aiming line exactly when shooting = false.
C7_Rendering ==
  /\ pc = "draw" => drawn = 0
  /\ pc \in {"poll", "handle", "exited"} => drawn = 1
  /\ pc = "physics" => drawn = (IF frame = <<>> THEN 0 ELSE 1)
  /\ pc = "poll" => /\ frame.ball = BallPos
                    /\ (frame.line # <<>>) <=> ~shooting

C7_Witness == pc = "poll" /\ shooting /\ drawn = 1 /\ frame.line = <<>>

\* C8: the loop has ended exactly when the last event handled is a QUIT; no
\* event after a QUIT is handled and nothing changes once the loop has ended.
C8_Termination ==
  /\ [](pc = "exited" <=> (done # <<>> /\ done[Len(done)] = "QUIT"))
  /\ [](\A i \in 1..(Len(done) - 1) : done[i] # "QUIT")
  /\ [][pc = "exited" => UNCHANGED vars]_vars

C8_Witness == pc = "exited" /\ queue # <<>> /\ shooting

\* C9: next_position at time 0 returns the start position.
C9_TimeZero ==
  (pc = "fn_next_position" /\ time = 0) => BallPos = <<start_x, start_y>>

C9_Witness ==
  /\ pc = "fn_next_position" /\ time = 0 /\ power > 0
  /\ angle = <<0, 1>> /\ BallPos = <<Px(663), Px(489)>>

\* C10: get_power returns the length of the drag divided by 8: it is not
\* negative, (8 * power)^2 = dx^2 + dy^2, and it is 0 exactly for the empty drag.
C10_Power ==
  pc = "fn_get_power" =>
    LET dx == mouse[1] - ball.x
        dy == mouse[2] - ball.y
        r == 8 * power
    IN /\ power >= 0
       /\ Mul(r, r) = Mul(dx, dx) + Mul(dy, dy)
       /\ (power = 0) <=> (dx = 0 /\ dy = 0)

C10_Witness ==
  /\ pc = "fn_get_power" /\ power = Px(25)
  /\ mouse[1] - ball.x = Px(160) /\ mouse[2] - ball.y = -Px(120)

DragX == mouse[1] - ball.x

DragY == mouse[2] - ball.y

HalfPi == AngHalf(pi)

Sign(n) == IF n > 0 THEN 1 ELSE IF n < 0 THEN -1 ELSE 0

\* C11, as stated: get_angle returns 0 for a drag directly right, pi/2 for a
\* drag directly up, pi for a drag directly left and 3*pi/2 for a drag
\* directly down.
C11_AxisAngles ==
  pc = "fn_get_angle" =>
    /\ (DragX > 0 /\ DragY = 0) => angle = <<0, 0>>
    /\ (DragX = 0 /\ DragY < 0) => angle = HalfPi
    /\ (DragX < 0 /\ DragY = 0) => angle = pi
    /\ (DragX = 0 /\ DragY > 0) => angle = AngAdd(pi, HalfPi)

\* C14: for an off-axis drag get_angle returns an angle of [0, 2*pi) in the
\* quadrant of the drag (right and above: (0, pi/2); left and above:
\* (pi/2, pi); left and below: (pi, 3*pi/2); right and below: (3*pi/2, 2*pi)),
\* so the launch velocity has the horizontal and vertical sense of the drag.
C14_Quadrants ==
  (pc = "fn_get_angle" /\ DragX # 0 /\ DragY # 0) =>
    LET a == Micro(angle)
    IN /\ a >= 0 /\ a < Micro(TwoPi)
       /\ (DragX > 0 /\ DragY < 0) => (0 < a /\ a < Micro(HalfPi))
       /\ (DragX < 0 /\ DragY < 0) => (Micro(HalfPi) < a /\ a < Micro(pi))
       /\ (DragX < 0 /\ DragY > 0) =>
            (Micro(pi) < a /\ a < Micro(AngAdd(pi, HalfPi)))
       /\ (DragX > 0 /\ DragY > 0) =>
            (Micro(AngAdd(pi, HalfPi)) < a /\ a < Micro(TwoPi))
       /\ Sign(cos(angle)) = Sign(DragX)
       /\ Sign(sin(angle)) = -Sign(DragY)

C14_Witness ==
  /\ pc = "fn_get_angle" /\ DragX = -Px(4) /\ DragY = Px(3)
  /\ angle = <<2, 1>>

\* C15: for a drag with dx = 0 get_angle returns pi/2 whatever the sign of dy
\* (the empty drag included), so a drag straight down launches the ball
\* straight up like a drag straight up.
C15_VerticalDrag ==
  (pc = "fn_get_angle" /\ DragX = 0) =>
    /\ angle = HalfPi
    /\ LET position == next_position(ball.x, ball.y, Px(10), angle, TimeStep)
       IN position[1] = ball.x /\ position[2] < ball.y

C15_Witness ==
  pc = "fn_get_angle" /\ DragX = 0 /\ DragY = Px(10) /\ angle = <<1, 0>>

C13_Order ==
  /\ [][/\ pc = "physics" => pc' = "draw"
        /\ pc = "draw" => pc' = "poll"
        /\ pc = "poll" => pc' \in {"handle", "physics"}
        /\ pc = "handle" => pc' \in {"handle", "physics", "exited"}]_vars
  /\ [][pc = "handle" => (ball' = ball /\ frame' = frame)]_vars
  /\ []((shooting /\ ticks = 0) =>
          /\ pc \in {"handle", "physics", "exited"}
          /\ time = 0
          /\ BallPos = pressed
          /\ frame = draw_window(ball, FALSE))
  /\ [][(pc = "physics" /\ shooting /\ ticks = 0) =>
          /\ step' = "update"
          /\ ticks' = 1
          /\ time' = TimeStep
          /\ <<ball'.x, ball'.y>> =
               next_position(start_x, start_y, power, angle, TimeStep)]_vars

C13_Witness ==
  /\ pc = "draw" /\ shooting /\ ticks = 1 /\ time = TimeStep
  /\ step = "update" /\ BallPos # pressed
  /\ frame.ball = pressed /\ frame.line # <<>>

\* C17: whenever shooting is false the ball's y is START_Y = HEIGHT - radius - 1,
\* above the ground line; every launch therefore captures start_y = START_Y, and
\* the first tick of every flight updates the position: no flight lands before
\* it has moved.
C17_StartsAboveGround ==
  /\ [](~shooting => (ball.y = START_Y /\ ball.y = Px(489) /\ ball.y < Ground))
  /\ [](shooting => start_y = Px(489))
  /\ []((shooting /\ ticks = 0) => KeepsFlying(ball))
  /\ [][(pc = "physics" /\ shooting /\ step' = "land") => ticks >= 1]_vars

C17_Witness ==
  /\ shooting /\ launches = 2 /\ ticks = 1 /\ step = "update"
  /\ start_y = START_Y /\ start_x # START_X

\* C18: a frame that shows the ball below the ground line (y > HEIGHT - radius)
\* is drawn with shooting = true and without the line; the next tick sets
\* shooting false and y = START_Y without a position update.  A flight that
\* lands shows the ball below the ground line in exactly one frame, its last
\* airborne one, and no two consecutive frames show it there.
BelowGround(f) == f # <<>> /\ f.ball[2] > Ground

C18_LateLanding ==
  /\ [](BelowGround(frame) =>
          /\ frame.line = <<>>
          /\ pc # "draw" => (shooting /\ BallPos = frame.ball)
          /\ pc = "draw" => (step = "land" /\ ~shooting))
  /\ [][(pc = "physics" /\ BelowGround(frame)) =>
          /\ step' = "land"
          /\ ~shooting'
          /\ ball'.y = START_Y
          /\ ball'.x = ball.x
          /\ time' = time]_vars
  /\ [][(pc = "physics" /\ shooting /\ ~BelowGround(frame)) =>
          step' = "update"]_vars
  /\ [][(pc = "draw" /\ BelowGround(frame)) => ~BelowGround(frame')]_vars

C18_Witness ==
  /\ pc = "physics" /\ shooting /\ ticks >= 2 /\ launches = 2
  /\ BelowGround(frame) /\ frame.line = <<>> /\ frame.ball = BallPos

\* C16: along the points of one launch at times 0.05, 0.10, 0.15, ... the
\* ball eventually only falls: from some tick on the screen y grows strictly
\* from each tick to the next, and once it has grown it never shrinks again;
\* every point has y = start y - (vy * t - 4.9 * t^2).
PreviousY == next_position(start_x, start_y, power, angle, time - TimeStep)[2]
Falling == ticks >= 1 /\ ball.y > PreviousY

C16_EventuallyFalls ==
  /\ <>[]Falling
  /\ [][Falling => Falling']_vars
  /\ [](LET vy == Mul(sin(angle), power)
        IN ball.y = start_y - (Mul(vy, time) - Mul(Gravity, Mul(time, time))))

C16_Witness ==
  /\ pc = "traj" /\ Falling /\ ball.y < start_y
  /\ power = Px(25) /\ angle = HalfPi /\ ticks < MaxTrajTicks

===========================================================================
